---------------------------- MODULE Spec2Model ----------------------------
(***************************************************************************)
(* A model of crc-sentences (src/main.cpp): the sentence encoder           *)
(* generateSentence, the checksum string renderer createCRCString, the     *)
(* search worker testSentences and the partitioning, launching and joining *)
(* of the workers in main.                                                 *)
(*                                                                         *)
(* Numbers.  A uint32_t is a pair <<hi, lo>> of 16-bit halves, so that the *)
(* 32-bit arithmetic of the program is computed at its real width.  A      *)
(* std::string that the program inspects character by character (the       *)
(* checksum string) is a sequence of one-character strings; the generated  *)
(* sentence is a string.                                                   *)
(***************************************************************************)
EXTENDS Integers, Sequences, FiniteSets, TLC

Base == 2 ^ 16

-----------------------------------------------------------------------------
(* uint32_t arithmetic, modulo 2^32 *)

U32(n) == <<n \div Base, n % Base>>

Add32(a, b) ==
    LET lo == a[2] + b[2]
        hi == a[1] + b[1] + (lo \div Base)
    IN  <<hi % Base, lo % Base>>

Sub32(a, b) ==
    LET lo == a[2] - b[2]
        hi == a[1] - b[1] - (IF lo < 0 THEN 1 ELSE 0)
    IN  <<(hi + Base) % Base, (lo + Base) % Base>>

\* (unsigned) k * a for an int k >= 0, as in i * bucketSize
Mul32(k, a) ==
    LET lo == k * a[2]
        hi == k * a[1] + (lo \div Base)
    IN  <<hi % Base, lo % Base>>

\* a / (unsigned) n for an int n > 0, as in length / numThreads
Div32(a, n) ==
    LET r == a[1] % n
    IN  <<a[1] \div n, (r * Base + a[2]) \div n>>

\* a % m for a small m > 0, as in i % 0xff
Mod32(a, m) == ((a[1] % m) * (Base % m) + a[2]) % m

Less32(a, b) == a[1] < b[1] \/ (a[1] = b[1] /\ a[2] < b[2])

Min32(a, b) == IF Less32(b, a) THEN b ELSE a

-----------------------------------------------------------------------------
(* characters and strings *)

LowerCase == <<"a", "b", "c", "d", "e", "f", "g", "h", "i", "j", "k", "l", "m",
               "n", "o", "p", "q", "r", "s", "t", "u", "v", "w", "x", "y", "z">>

UpperCase == <<"A", "B", "C", "D", "E", "F", "G", "H", "I", "J", "K", "L", "M",
               "N", "O", "P", "Q", "R", "S", "T", "U", "V", "W", "X", "Y", "Z">>

Range(s) == {s[k] : k \in DOMAIN s}

isalpha(ch) == ch \in Range(LowerCase) \cup Range(UpperCase)

toupper(ch) ==
    IF ch \in Range(LowerCase)
    THEN UpperCase[CHOOSE k \in DOMAIN LowerCase : LowerCase[k] = ch]
    ELSE ch

\* the characters of a std::string written to a stream
RECURSIVE Str(_)
Str(chars) == IF chars = <<>> THEN "" ELSE Head(chars) \o Str(Tail(chars))

HexDigit == <<"0", "1", "2", "3", "4", "5", "6", "7",
              "8", "9", "a", "b", "c", "d", "e", "f">>

DecDigit == <<"0", "1", "2", "3", "4", "5", "6", "7", "8", "9">>

\* operator<< of an unsigned 32-bit pattern under std::hex: no leading zeros
RECURSIVE HexChars(_)
HexChars(v) ==
    LET q == Div32(v, 16)
        d == <<HexDigit[Mod32(v, 16) + 1]>>
    IN  IF q = <<0, 0>> THEN d ELSE HexChars(q) \o d

\* std::setw(w) with std::setfill(fill): pad on the left up to the width
RECURSIVE PadLeft(_, _, _)
PadLeft(chars, w, fill) ==
    IF Len(chars) >= w THEN chars ELSE PadLeft(<<fill>> \o chars, w, fill)

\* operator<< of an int under std::dec
RECURSIVE DecString(_)
DecString(n) ==
    IF n < 10 THEN DecDigit[n + 1]
    ELSE DecString(n \div 10) \o DecDigit[(n % 10) + 1]

\* (int) log10((double) n) for n >= 1
RECURSIVE Log10(_)
Log10(n) == IF n < 10 THEN 0 ELSE 1 + Log10(n \div 10)

-----------------------------------------------------------------------------
(* createCRCString: the 8 character, 0 padded hex string of a value *)

createCRCString(crcValue, upperCase) ==
    LET crcString == PadLeft(HexChars(crcValue), 8, "0")
    IN  IF upperCase
        THEN [k \in DOMAIN crcString |-> toupper(crcString[k])]
        ELSE crcString

-----------------------------------------------------------------------------
(* generateSentence *)

\* (operation & mask) != 0 for a one-bit mask
Bit(operation, mask) == (operation \div mask) % 2 = 1

\* OpeningText with the capital letter of the opening phrase forgotten
OpeningTextLower(openingPhrase, capitalFirstLetter) ==
    CASE openingPhrase = 0 -> ""
      [] openingPhrase = 1 -> "believe it or not, "
      [] openingPhrase = 2 -> "useful for testing, "
      [] openingPhrase = 3 -> "handily, "

OpeningText(openingPhrase, capitalFirstLetter) ==
    CASE openingPhrase = 0 -> ""
      [] openingPhrase = 1 ->
            (IF capitalFirstLetter THEN "B" ELSE "b") \o "elieve it or not, "
      [] openingPhrase = 2 ->
            (IF capitalFirstLetter THEN "U" ELSE "u") \o "seful for testing, "
      [] openingPhrase = 3 ->
            (IF capitalFirstLetter THEN "H" ELSE "h") \o "andily, "

\* BodyText with the two texts of the fourth body the wrong way round
BodyTextSwapped(basicText, capitalFirstLetter, col, crcString) ==
    (CASE basicText = 0 ->
            (IF capitalFirstLetter THEN "T" ELSE "t") \o "his text has a CRC of"
       [] basicText = 1 ->
            (IF capitalFirstLetter THEN "T" ELSE "t") \o "his string has a CRC of"
       [] basicText = 2 ->
            (IF capitalFirstLetter THEN "T" ELSE "t") \o "his has a CRC of"
       [] basicText = 3 ->
            (IF capitalFirstLetter THEN "I happen to " ELSE "I ")
            \o "have a CRC value of")
    \o (IF col THEN ": " ELSE " ") \o Str(crcString)

BodyText(basicText, capitalFirstLetter, col, crcString) ==
    CASE basicText = 0 ->
            (IF capitalFirstLetter THEN "T" ELSE "t") \o "his text has a CRC of"
            \o (IF col THEN ": " ELSE " ") \o Str(crcString)
      [] basicText = 1 ->
            (IF capitalFirstLetter THEN "T" ELSE "t") \o "his string has a CRC of"
            \o (IF col THEN ": " ELSE " ") \o Str(crcString)
      [] basicText = 2 ->
            (IF capitalFirstLetter THEN "T" ELSE "t") \o "his has a CRC of"
            \o (IF col THEN ": " ELSE " ") \o Str(crcString)
      [] basicText = 3 ->
            (IF capitalFirstLetter THEN "I " ELSE "I happen to ")
            \o "have a CRC value of"
            \o (IF col THEN ": " ELSE " ") \o Str(crcString)

\* SelfLength with the full stop that follows the number left out of the count
SelfLengthNoStop(written, fullStop) ==
    LET charsToStoreLen    == Log10(written) + 1
        strLen1            == written + charsToStoreLen
        newCharsToStoreLen == Log10(strLen1) + 1
    IN  IF newCharsToStoreLen > charsToStoreLen THEN strLen1 + 1 ELSE strLen1

\* the number written after " and a length of ", from the length written so far
SelfLength(written, fullStop) ==
    LET strLen0            == written + (IF fullStop THEN 1 ELSE 0)
        charsToStoreLen    == Log10(strLen0) + 1
        strLen1            == strLen0 + charsToStoreLen
        newCharsToStoreLen == Log10(strLen1) + 1
    IN  IF newCharsToStoreLen > charsToStoreLen THEN strLen1 + 1 ELSE strLen1

generateSentence(operation, crcString) ==
    LET basicText          == operation % 4
        capitalFirstLetter == Bit(operation, 4)
        fullStop           == Bit(operation, 8)
        col                == Bit(operation, 16)
        openingPhrase      == (operation \div 32) % 4
        appendLength       == Bit(operation, 128)
        \* an opening phrase takes the capital letter
        capitalBody        == capitalFirstLetter /\ openingPhrase = 0
        body   == OpeningText(openingPhrase, capitalFirstLetter)
                  \o BodyText(basicText, capitalBody, col, crcString)
        tagged == body \o " and a length of "
        out    == IF appendLength
                  THEN tagged \o DecString(SelfLength(Len(tagged), fullStop))
                  ELSE body
    IN  IF fullStop THEN out \o "." ELSE out

-----------------------------------------------------------------------------
(* CRC::Calculate(data, size, CRC::CRC_32()): the standard CRC-32, reflected  *)
(* input and output, initial value and final XOR all ones                    *)

\* the exclusive or of two 4-bit values
Xor4 ==
    [a \in 0..15 |-> [b \in 0..15 |->
        ((a + b) % 2)
        + 2 * (((a \div 2) + (b \div 2)) % 2)
        + 4 * (((a \div 4) + (b \div 4)) % 2)
        + 8 * (((a \div 8) + (b \div 8)) % 2)]]

Xor8(a, b) == 16 * Xor4[a \div 16][b \div 16] + Xor4[a % 16][b % 16]

Xor16(a, b) == 256 * Xor8(a \div 256, b \div 256) + Xor8(a % 256, b % 256)

Xor32(a, b) == <<Xor16(a[1], b[1]), Xor16(a[2], b[2])>>

\* a >> n for n in 1..16
ShiftRight32(a, n) ==
    <<a[1] \div (2 ^ n), (a[1] % (2 ^ n)) * (2 ^ (16 - n)) + a[2] \div (2 ^ n)>>

\* the CRC-32 polynomial 0x04C11DB7 reflected: 0xEDB88320
ReflectedPolynomial == <<60856, 33568>>

\* n shifts of the register, the polynomial folded in for every bit shifted out
RECURSIVE CrcShift(_, _)
CrcShift(reg, n) ==
    IF n = 0 THEN reg
    ELSE CrcShift(IF reg[2] % 2 = 1
                  THEN Xor32(ShiftRight32(reg, 1), ReflectedPolynomial)
                  ELSE ShiftRight32(reg, 1),
                  n - 1)

\* the effect of the eight shifts on each value of the low byte
CrcTable == [byte \in 0..255 |-> CrcShift(<<0, byte>>, 8)]

\* one byte of the data taken into the register
CrcByte(reg, byte) ==
    Xor32(CrcTable[Xor8(reg[2] % 256, byte)], ShiftRight32(reg, 8))

\* the bytes from..to of the data taken into the register, in order: the
\* register after the first half of them is worked out, then the second half
\* is taken in
RECURSIVE CrcBytes(_, _, _, _)
CrcBytes(reg, bytes, from, to) ==
    IF from > to THEN reg
    ELSE IF from = to THEN CrcByte(reg, bytes[from])
    ELSE LET mid  == (from + to) \div 2
             half == CrcBytes(reg, bytes, from, mid)
         IN  IF half[1] < Base THEN CrcBytes(half, bytes, mid + 1, to) ELSE half

\* the char values of the characters the sentences are made of (ASCII)
Ord ==
    [ch \in {" ", ",", ".", ":"} \cup Range(DecDigit) \cup Range(UpperCase)
            \cup Range(LowerCase) |->
        CASE ch = " " -> 32
          [] ch = "," -> 44
          [] ch = "." -> 46
          [] ch = ":" -> 58
          [] ch \in Range(DecDigit) ->
                47 + (CHOOSE k \in DOMAIN DecDigit : DecDigit[k] = ch)
          [] ch \in Range(UpperCase) ->
                64 + (CHOOSE k \in DOMAIN UpperCase : UpperCase[k] = ch)
          [] ch \in Range(LowerCase) ->
                96 + (CHOOSE k \in DOMAIN LowerCase : LowerCase[k] = ch)]

\* sentence.c_str(), sentence.length(): the bytes of the sentence
Bytes(sentence) == [k \in 1..Len(sentence) |-> Ord[SubSeq(sentence, k, k)]]

\* CRC::Calculate(sentence.c_str(), sentence.length(), CRC::CRC_32())
Calculate(sentence) ==
    LET bytes == Bytes(sentence)
        ones  == <<Base - 1, Base - 1>>
    IN  Xor32(CrcBytes(ones, bytes, 1, Len(bytes)), ones)

-----------------------------------------------------------------------------
(* long: with a 64-bit long, (long) crc - (long) i is the exact difference  *)
(* of two values below 2^32, held as a sign and a magnitude                 *)

ToLong(u) == [neg |-> FALSE, mag |-> u]

LongSub(a, b) ==
    IF Less32(a.mag, b.mag)
    THEN [neg |-> TRUE, mag |-> Sub32(b.mag, a.mag)]
    ELSE [neg |-> FALSE, mag |-> Sub32(a.mag, b.mag)]

LongAbs(a) == [neg |-> FALSE, mag |-> a.mag]

\* a < n for an int n >= 0
LongLess(a, n) == (a.neg /\ a.mag # <<0, 0>>) \/ Less32(a.mag, U32(n))

-----------------------------------------------------------------------------------------------------------------------------------------------------
(* double: IEEE 754 binary64, round to nearest even.  The doubles of the    *)
(* progress computation are positive and are held as <<m, s>>, the value    *)
(* m * 2^(-s) with m a natural of at most 53 significant bits.  Naturals of *)
(* that size are sequences of 13-bit limbs, least significant first.        *)

MantDig == 52 + 1

LimbBits == 12 + 1

Limb == 2 ^ LimbBits

\* the number of bits of a natural below 2^17
BitLen(v) == CHOOSE b \in 0..17 : v < 2 ^ b /\ (b = 0 \/ v >= 2 ^ (b - 1))

\* naturals below 2^34 as <<hi, lo>> with lo < 2^16, for the long division
WBitLen(w) == IF w[1] > 0 THEN 16 + BitLen(w[1]) ELSE BitLen(w[2])

WDouble(w) ==
    LET lo == 2 * w[2]
    IN  <<2 * w[1] + (lo \div Base), lo % Base>>

WSub(w, v) ==
    LET lo == w[2] - v[2]
    IN  <<w[1] - v[1] - (IF lo < 0 THEN 1 ELSE 0), (lo + Base) % Base>>

\* w * 2^sh for a product below 2^34
WShiftLeft(w, sh) ==
    LET bits == sh % 16
        lo   == w[2] * 2 ^ bits
        part == <<w[1] * 2 ^ bits + (lo \div Base), lo % Base>>
    IN  CASE sh \div 16 = 0 -> part
          [] sh \div 16 = 1 -> <<part[1] * Base + part[2], 0>>
          [] sh \div 16 = 2 -> <<part[2] * Base, 0>>

\* the least sh with x * 2^sh >= y, for 0 < x < y
Shifts(x, y) ==
    LET gap == WBitLen(y) - WBitLen(x)
    IN  IF Less32(WShiftLeft(x, gap), y) THEN gap + 1 ELSE gap

\* n further quotient bits of rem / y for rem < y: <<the bits, the remainder>>
RECURSIVE LongDiv(_, _, _)
LongDiv(rem, y, n) ==
    IF n = 0 THEN <<0, rem>>
    ELSE LET rem2 == WDouble(rem)
             bit  == IF Less32(rem2, y) THEN 0 ELSE 1
             rem3 == IF bit = 1 THEN WSub(rem2, y) ELSE rem2
             rest == LongDiv(rem3, y, n - 1)
         IN  <<bit * 2 ^ (n - 1) + rest[1], rest[2]>>

\* limbs + 1
RECURSIVE LimbsInc(_)
LimbsInc(limbs) ==
    IF limbs = <<>> THEN <<1>>
    ELSE IF Head(limbs) + 1 < Limb
         THEN <<Head(limbs) + 1>> \o Tail(limbs)
         ELSE <<0>> \o LimbsInc(Tail(limbs))

\* limbs * c + carry for a small natural c
RECURSIVE LimbsTimes(_, _, _)
LimbsTimes(limbs, c, carry) ==
    IF limbs = <<>> THEN (IF carry = 0 THEN <<>> ELSE <<carry>>)
    ELSE LET t == Head(limbs) * c + carry
         IN  <<t % Limb>> \o LimbsTimes(Tail(limbs), c, t \div Limb)

LimbAt(limbs, j) == IF j \in DOMAIN limbs THEN limbs[j] ELSE 0

\* the number of bits of a natural whose top limb is not zero
LimbsBitLen(limbs) ==
    IF limbs = <<>> THEN 0
    ELSE LimbBits * (Len(limbs) - 1) + BitLen(limbs[Len(limbs)])

\* floor(limbs / 2^sh), as limbs of the same length
LimbsShiftRight(limbs, sh) ==
    LET whole == sh \div LimbBits
        bits  == sh % LimbBits
    IN  [j \in DOMAIN limbs |->
            (LimbAt(limbs, j + whole) \div 2 ^ bits)
            + (LimbAt(limbs, j + whole + 1) % 2 ^ bits) * 2 ^ (LimbBits - bits)]

\* limbs / 2^sh rounded to nearest, ties to even, for 0 < sh <= 13
LimbsRound(limbs, sh) ==
    LET kept    == LimbsShiftRight(limbs, sh)
        dropped == limbs[1] % 2 ^ sh
        half    == 2 ^ (sh - 1)
        up      == dropped > half \/ (dropped = half /\ kept[1] % 2 = 1)
    IN  IF up THEN LimbsInc(kept) ELSE kept

\* the value of limbs, for a natural below 2^26
LimbsValue(limbs) == LimbAt(limbs, 1) + Limb * LimbAt(limbs, 2)

\* (double) x / (double) y for integers 0 < x < y < 2^32
DivDouble(x, y) ==
    LET sh   == Shifts(x, y)
        q1   == LongDiv(WSub(WShiftLeft(x, sh), y), y, LimbBits)
        q2   == LongDiv(q1[2], y, LimbBits)
        q3   == LongDiv(q2[2], y, LimbBits)
        q4   == LongDiv(q3[2], y, LimbBits)
        m    == <<q4[1], q3[1], q2[1], q1[1], 1>>
        rem2 == WDouble(q4[2])
        up   == Less32(y, rem2) \/ (rem2 = y /\ q4[1] % 2 = 1)
    IN  <<IF up THEN LimbsInc(m) ELSE m, sh + MantDig - 1>>

\* d * c for a double d > 0 and a small integer-valued double c, as in d * 100.0
MulDouble(d, c) ==
    LET prod == LimbsTimes(d[1], c, 0)
        over == LimbsBitLen(prod) - MantDig
    IN  IF over <= 0 THEN <<prod, d[2]>>
        ELSE <<LimbsRound(prod, over), d[2] - over>>

\* (int) d for a double 0 < d < 2^26: truncation
TruncInt(d) == LimbsValue(LimbsShiftRight(d[1], d[2]))

\* (int)((((double) i-start_inc) / (double)(end_ex - start_inc)) * 100.0)
Percent(i, start_inc, end_ex) ==
    IF i = start_inc THEN 0
    ELSE TruncInt(MulDouble(DivDouble(Sub32(i, start_inc),
                                      Sub32(end_ex, start_inc)), 100))

-----------------------------------------------------------------------------
(* program constants *)

\* maxSentenceOperations with a binary digit missing: 0b10000000
FewerSentenceOperations == 2 ^ 7

\* const int maxSentenceOperations = 0b100000000
maxSentenceOperations == 256

nearMissDistance == 25

\* volatile int percentComplete = -1
PercentCompleteInit == -1

\* uint32_t start = 0
start == <<0, 0>>

\* uint32_t length = 0xffffffff
SearchLength == <<Base - 1, Base - 1>>

-----------------------------------------------------------------------------
(* bounds of the model *)

\* the largest std::thread::hardware_concurrency() explored
MaxHardware == 4

\* SpecPartition explores hardware_concurrency() up to MaxHardware + PartitionExtra
PartitionExtra == 20

\* SpecThreads: the search length is scaled down to at most this many values,
\* so that every worker's loop is explored to its end
MaxLength == 6

\* SpecReporter: with two workers, a search length that puts a multiple of
\* 0xff in the range of the second
WideLength == 256

\* SpecWorker: the worker is run on ranges of at most this many candidates
MaxRange == 2

\* SpecProgress: the longest range of the progress runs
MaxProgress == 520

-----------------------------------------------------------------------------
(* state *)

VARIABLES
    localeExists,     \* whether the environment names a locale the system has
    hardware,         \* what std::thread::hardware_concurrency() returns
    numThreads,       \* main: int numThreads
    length,           \* main: uint32_t length
    bucketSize,       \* main: uint32_t bucketSize
    launchI,          \* main: the i of the launching loop
    joined,           \* main: how many threads of the vector are joined
    mainPc,           \* main: "imbue", "detect", "launch", "join", "done", or
                      \*       "aborted"; "none" when testSentences is run on
                      \*       its own
    exitStatus,       \* the status the process ended with, -1 while it runs
    threads,          \* std::vector<std::thread>: one testSentences call each
    percentComplete,  \* volatile int percentComplete
    accessed,         \* the threads that have read or written percentComplete
    enc               \* a call of createCRCString and generateSentence on its own

mainVars == <<localeExists, hardware, numThreads, length, bucketSize, launchI, joined,
              mainPc, exitStatus>>

vars == <<localeExists, hardware, numThreads, length, bucketSize, launchI, joined,
          mainPc, exitStatus, threads, percentComplete, accessed, enc>>

NoTest == [i |-> <<0, 0>>, c |-> -1, operation |-> -1, crc |-> <<0, 0>>,
           out |-> "none"]

NoProgress == [i |-> <<0, 0>>, checked |-> FALSE, computed |-> FALSE,
               per |-> -1, before |-> -1, differs |-> FALSE, stored |-> FALSE,
               printed |-> FALSE]

NoCandidate == [i |-> <<0, 0>>, finished |-> FALSE, passes |-> <<>>, calls |-> 0]

NoEnc == [pc |-> "none", crcValue |-> <<0, 0>>, upperCase |-> FALSE,
          crcString |-> <<>>, operation |-> -1, sentence |-> ""]

\* a thread at the start of testSentences(start_inc, end_ex, reportPercentComplete)
NewWorker(start_inc, end_ex, reportPercentComplete) ==
    [start_inc |-> start_inc, end_ex |-> end_ex,
     reportPercentComplete |-> reportPercentComplete,
     pc |-> "for_i", i |-> start_inc, c |-> 0, operation |-> 0,
     crcString |-> <<>>, sentence |-> "",
     \* what the worker was seen to do
     ops      |-> <<>>,         \* the operation codes encoded in this pass
     passes   |-> <<>>,         \* the letter cases run for this candidate
     calls    |-> 0,            \* the encoder invocations for this candidate
     test     |-> NoTest,       \* the last sentence tested and what was reported
     progress |-> NoProgress,   \* the last pass through the progress report
     last     |-> NoCandidate]  \* the last candidate finished

-----------------------------------------------------------------------------
(* testSentences *)

\* ReportPercent with i % 0x100 for i % 0xff
ReportPercentEvery256(w, shared) ==
    LET computed == w.reportPercentComplete /\ Mod32(w.i, 256) = 0
        per      == Percent(w.i, w.start_inc, w.end_ex)
    IN  [i        |-> w.i,
         checked  |-> TRUE,
         computed |-> computed,
         per      |-> IF computed THEN per ELSE -1,
         before   |-> IF computed THEN shared ELSE -1,
         differs  |-> computed /\ per # shared,
         stored   |-> FALSE,
         printed  |-> FALSE]

\* ReportPercent with the test of reportPercentComplete left out
ReportPercentUnguarded(w, shared) ==
    LET computed == Mod32(w.i, 255) = 0
        per      == Percent(w.i, w.start_inc, w.end_ex)
    IN  [i        |-> w.i,
         checked  |-> TRUE,
         computed |-> computed,
         per      |-> IF computed THEN per ELSE -1,
         before   |-> IF computed THEN shared ELSE -1,
         differs  |-> computed /\ per # shared,
         stored   |-> FALSE,
         printed  |-> FALSE]

\* the progress report of one pass of the loop over i, up to the test of line
\* 219: whether the percentage is computed, its value, the value of
\* percentComplete it is compared with, and whether the two differ; nothing is
\* stored or printed yet
ReportPercent(w, shared) ==
    LET computed == w.reportPercentComplete /\ Mod32(w.i, 255) = 0
        per      == Percent(w.i, w.start_inc, w.end_ex)
    IN  [i        |-> w.i,
         checked  |-> TRUE,
         computed |-> computed,
         per      |-> IF computed THEN per ELSE -1,
         before   |-> IF computed THEN shared ELSE -1,
         differs  |-> computed /\ per # shared,
         stored   |-> FALSE,
         printed  |-> FALSE]

\* Classify with a long of 32 bits: the difference wraps around
ClassifyLong32(crc, i) ==
    LET diff == Sub32(crc, i)
        size == IF diff[1] >= Base \div 2 THEN Sub32(<<0, 0>>, diff) ELSE diff
    IN  IF crc = i THEN "HIT"
        ELSE IF Less32(size, U32(25)) THEN "NEAR MISS" ELSE "none"

\* what is written to std::cout for a sentence of checksum crc and candidate i
Classify(crc, i) ==
    IF crc = i THEN "HIT"
    ELSE IF LongLess(LongAbs(LongSub(ToLong(crc), ToLong(i))), nearMissDistance)
         THEN "NEAR MISS"
         ELSE "none"

\* std::uint32_t crc = CRC::Calculate(...): the checksum of the sentence. The
\* library is outside the source given, and no candidate within reach has a
\* sentence whose checksum falls next to it, so besides the CRC-32 of the
\* sentence the checksum may be any of the values a stub would return to bring
\* every case of the test about: the candidate itself and the values at the
\* near miss distance and just inside it on both sides (modulo 2^32)
Checksums(i, sentence) ==
    {Calculate(sentence)}
    \cup {Add32(i, U32(dist)) : dist \in {0, nearMissDistance - 1, nearMissDistance}}
    \cup {Sub32(i, U32(dist)) : dist \in {nearMissDistance - 1, nearMissDistance}}

\* NumLetters counting every character
NumCharacters(crcString) == Len(crcString)

\* std::count_if(crcString.begin(), crcString.end(), isalpha)
NumLetters(crcString) == Cardinality({k \in DOMAIN crcString : isalpha(crcString[k])})

\* the letter cases that the loop over c runs for candidate i, from case c on
RECURSIVE CasesRun(_, _)
CasesRun(i, c) ==
    IF c < 2
    THEN <<c>> \o (IF NumLetters(createCRCString(i, c = 1)) = 0
                   THEN <<>>
                   ELSE CasesRun(i, c + 1))
    ELSE <<>>

\* for(uint32_t i=start_inc; i<end_ex; i++): the test holds; the tests of the
\* progress report. The thread reads percentComplete when it computes the
\* percentage, and goes on to store it when the two differ
ForI(t) ==
    LET w      == threads[t]
        report == ReportPercent(w, percentComplete)
    IN  /\ w.pc = "for_i"
        /\ Less32(w.i, w.end_ex)
        /\ accessed' = IF report.computed THEN accessed \cup {t} ELSE accessed
        /\ threads' = [threads EXCEPT ![t] =
              [w EXCEPT !.pc = IF report.differs THEN "store" ELSE "for_c",
                        !.c = 0, !.passes = <<>>, !.calls = 0,
                        !.progress = report]]
        /\ UNCHANGED <<mainVars, percentComplete, enc>>

\* percentComplete = per
StorePercent(t) ==
    LET w == threads[t]
    IN  /\ w.pc = "store"
        /\ percentComplete' = w.progress.per
        /\ accessed' = accessed \cup {t}
        /\ threads' = [threads EXCEPT ![t] =
              [w EXCEPT !.pc = "print", !.progress.stored = TRUE]]
        /\ UNCHANGED <<mainVars, enc>>

\* std::cout << per << "% complete." << std::endl: the line is out when the
\* flush returns, which waits for as long as standard output takes no more
PrintPercent(t) ==
    LET w == threads[t]
    IN  /\ w.pc = "print"
        /\ threads' = [threads EXCEPT ![t] =
              [w EXCEPT !.pc = "for_c", !.progress.printed = TRUE]]
        /\ UNCHANGED <<mainVars, percentComplete, accessed, enc>>

\* for(int c=0; c<2; c++): the test holds; create the crc string
ForC(t) ==
    LET w == threads[t]
    IN  /\ w.pc = "for_c"
        /\ w.c < 2
        /\ threads' = [threads EXCEPT ![t] =
              [w EXCEPT !.pc = "for_op", !.operation = 0, !.ops = <<>>,
                        !.crcString = createCRCString(w.i, w.c = 1),
                        !.passes = Append(w.passes, w.c)]]
        /\ UNCHANGED <<mainVars, percentComplete, accessed, enc>>

\* the loop over c ends with c = 2; i++
EndC(t) ==
    LET w == threads[t]
    IN  /\ w.pc = "for_c"
        /\ ~(w.c < 2)
        /\ threads' = [threads EXCEPT ![t] =
              [w EXCEPT !.pc = "for_i", !.i = Add32(w.i, U32(1)),
                        !.last = [i |-> w.i, finished |-> TRUE,
                                  passes |-> w.passes, calls |-> w.calls]]]
        /\ UNCHANGED <<mainVars, percentComplete, accessed, enc>>

\* one pass of the loop over operation: generate a sentence, test its checksum
ForOp(t) ==
    LET w        == threads[t]
        sentence == generateSentence(w.operation, w.crcString)
    IN  /\ w.pc = "for_op"
        /\ w.operation < maxSentenceOperations
        /\ \E crc \in Checksums(w.i, sentence) :
              threads' = [threads EXCEPT ![t] =
                 [w EXCEPT !.sentence = sentence,
                           !.test = [i |-> w.i, c |-> w.c,
                                     operation |-> w.operation, crc |-> crc,
                                     out |-> Classify(crc, w.i)],
                           !.ops = Append(w.ops, w.operation),
                           !.calls = w.calls + 1,
                           !.operation = w.operation + 1]]
        /\ UNCHANGED <<mainVars, percentComplete, accessed, enc>>

\* the loop over operation ends; count the letters and leave the loop over c
\* early when there are none
EndOp(t) ==
    LET w          == threads[t]
        numLetters == NumLetters(w.crcString)
    IN  /\ w.pc = "for_op"
        /\ ~(w.operation < maxSentenceOperations)
        /\ threads' = [threads EXCEPT ![t] =
              IF numLetters = 0
              THEN [w EXCEPT !.pc = "for_i", !.i = Add32(w.i, U32(1)),
                             !.last = [i |-> w.i, finished |-> TRUE,
                                       passes |-> w.passes, calls |-> w.calls]]
              ELSE [w EXCEPT !.pc = "for_c", !.c = w.c + 1]]
        /\ UNCHANGED <<mainVars, percentComplete, accessed, enc>>

\* the loop over i ends; report the duration and return
Finish(t) ==
    LET w == threads[t]
    IN  /\ w.pc = "for_i"
        /\ ~Less32(w.i, w.end_ex)
        /\ threads' = [threads EXCEPT ![t] = [w EXCEPT !.pc = "done"]]
        /\ UNCHANGED <<mainVars, percentComplete, accessed, enc>>

\* the rest of a pass of the loop over i, after the progress report: the loops
\* over c and operation, which touch nothing but the thread's own locals and
\* std::cout; then i++
Pass(t) ==
    LET w      == threads[t]
        passes == CasesRun(w.i, 0)
    IN  /\ w.pc = "for_c"
        /\ w.c = 0
        /\ threads' = [threads EXCEPT ![t] =
              [w EXCEPT !.pc = "for_i", !.i = Add32(w.i, U32(1)),
                        !.last = [i |-> w.i, finished |-> TRUE, passes |-> passes,
                                  calls |-> maxSentenceOperations * Len(passes)]]]
        /\ UNCHANGED <<mainVars, percentComplete, accessed, enc>>

-----------------------------------------------------------------------------
(* main *)

\* std::max(numThreads-1, 1)
Max(a, b) == IF a < b THEN b ELSE a

\* what a shell shows for a process ended by SIGABRT (signal 6)
AbortStatus == 128 + 6

\* std::cout.imbue(std::locale("")): std::locale("") throws std::runtime_error
\* when the environment names a locale the system does not have; nothing
\* catches it, std::terminate aborts the process
Imbue ==
    /\ mainPc = "imbue"
    /\ IF localeExists
       THEN mainPc' = "detect" /\ exitStatus' = exitStatus
       ELSE mainPc' = "aborted" /\ exitStatus' = AbortStatus
    /\ UNCHANGED <<localeExists, hardware, numThreads, length, bucketSize,
                   launchI, joined, threads, percentComplete, accessed, enc>>

\* detect the cpu concurrency, leave a thread spare if possible; the bucket size
Detect ==
    /\ mainPc = "detect"
    /\ numThreads' = IF hardware = 0 THEN 1 ELSE Max(hardware - 1, 1)
    /\ bucketSize' = Div32(length, numThreads')
    /\ launchI' = 0
    /\ mainPc' = "launch"
    /\ UNCHANGED <<localeExists, hardware, length, joined, exitStatus, threads,
                   percentComplete, accessed, enc>>

tStart(i, bucket) == Add32(start, Mul32(i, bucket))

tEnd(i, bucket, len) == Min32(Add32(tStart(i, bucket), bucket), Add32(start, len))

\* isReporterThread with every thread reporting
EveryThreadReports(i) == i >= 0

isReporterThread(i) == i = 0

\* launch a separate thread for each part of the range being investigated
Launch ==
    /\ mainPc = "launch"
    /\ launchI < numThreads
    /\ threads' = Append(threads,
                         NewWorker(tStart(launchI, bucketSize),
                                   tEnd(launchI, bucketSize, length),
                                   isReporterThread(launchI)))
    /\ launchI' = launchI + 1
    /\ UNCHANGED <<localeExists, hardware, numThreads, length, bucketSize, joined, mainPc,
                   exitStatus, percentComplete, accessed, enc>>

\* threads.emplace_back(...): the constructor of std::thread throws
\* std::system_error when the system cannot start another thread; nothing
\* catches it, std::terminate aborts the process with the workers launched so
\* far still in it
LaunchThrows ==
    /\ mainPc = "launch"
    /\ launchI < numThreads
    /\ mainPc' = "aborted"
    /\ exitStatus' = AbortStatus
    /\ UNCHANGED <<localeExists, hardware, numThreads, length, bucketSize,
                   launchI, joined, threads, percentComplete, accessed, enc>>

\* the launching loop ends
Launched ==
    /\ mainPc = "launch"
    /\ ~(launchI < numThreads)
    /\ mainPc' = "join"
    /\ joined' = 0
    /\ UNCHANGED <<localeExists, hardware, numThreads, length, bucketSize, launchI,
                   exitStatus, threads, percentComplete, accessed, enc>>

\* Join with the threads detached: main does not wait
JoinWithoutWaiting ==
    /\ mainPc = "join"
    /\ joined < Len(threads)
    /\ joined' = joined + 1
    /\ UNCHANGED <<localeExists, hardware, numThreads, length, bucketSize, launchI, mainPc,
                   exitStatus, threads, percentComplete, accessed, enc>>

\* t.join() returns once the next thread of the vector has finished
Join ==
    /\ mainPc = "join"
    /\ joined < Len(threads)
    /\ threads[joined + 1].pc = "done"
    /\ joined' = joined + 1
    /\ UNCHANGED <<localeExists, hardware, numThreads, length, bucketSize, launchI, mainPc,
                   exitStatus, threads, percentComplete, accessed, enc>>

\* return 0
Return ==
    /\ mainPc = "join"
    /\ ~(joined < Len(threads))
    /\ mainPc' = "done"
    /\ exitStatus' = 0
    /\ UNCHANGED <<localeExists, hardware, numThreads, length, bucketSize, launchI, joined,
                   threads, percentComplete, accessed, enc>>

-----------------------------------------------------------------------------
(* createCRCString and generateSentence on their own *)

Render ==
    /\ enc.pc = "render"
    /\ enc' = [enc EXCEPT !.pc = "encode",
                          !.crcString = createCRCString(enc.crcValue, enc.upperCase)]
    /\ UNCHANGED <<mainVars, threads, percentComplete, accessed>>

Encode ==
    /\ enc.pc = "encode"
    /\ \E operation \in 0..(maxSentenceOperations - 1) :
          enc' = [enc EXCEPT !.pc = "encoded", !.operation = operation,
                             !.sentence = generateSentence(operation, enc.crcString)]
    /\ UNCHANGED <<mainVars, threads, percentComplete, accessed>>

-----------------------------------------------------------------------------
(* specifications *)

InitMain(locale, hw, len) ==
    /\ localeExists = locale
    /\ hardware = hw
    /\ numThreads = 0
    /\ length = len
    /\ bucketSize = <<0, 0>>
    /\ launchI = 0
    /\ joined = 0
    /\ mainPc = "imbue"
    /\ exitStatus = -1
    /\ threads = <<>>
    /\ percentComplete = PercentCompleteInit
    /\ accessed = {}
    /\ enc = NoEnc

\* testSentences(start_inc, end_ex, reportPercentComplete) run on its own
InitCall(start_inc, end_ex, reportPercentComplete) ==
    /\ localeExists = TRUE
    /\ hardware = 0
    /\ numThreads = 0
    /\ length = SearchLength
    /\ bucketSize = <<0, 0>>
    /\ launchI = 0
    /\ joined = 0
    /\ mainPc = "none"
    /\ exitStatus = -1
    /\ threads = <<NewWorker(start_inc, end_ex, reportPercentComplete)>>
    /\ percentComplete = PercentCompleteInit
    /\ accessed = {}
    /\ enc = NoEnc

\* main up to the end of the launching loop, with the search length of the
\* program: the ranges the workers are given
InitPartition ==
    \E locale \in BOOLEAN : \E hw \in 0..(MaxHardware + PartitionExtra) :
        InitMain(locale, hw, SearchLength)

NextPartition == Imbue \/ Detect \/ Launch \/ LaunchThrows \/ Launched

SpecPartition == InitPartition /\ [][NextPartition]_vars

\* the whole program with the search length scaled down. A worker takes a pass
\* of its loop over i in up to four steps: the tests of the progress report,
\* the store to percentComplete, the output of the line, and the rest
InitThreads ==
    \E locale \in BOOLEAN : \E hw \in 0..MaxHardware : \E len \in 1..MaxLength :
        InitMain(locale, hw, U32(len))

\* a thread runs for as long as the process does
Worker(t) ==
    /\ exitStatus = -1
    /\ (ForI(t) \/ StorePercent(t) \/ PrintPercent(t) \/ Pass(t) \/ Finish(t))

MainStep == Imbue \/ Detect \/ Launch \/ LaunchThrows \/ Launched \/ Join \/ Return

NextThreads == MainStep \/ \E t \in DOMAIN threads : Worker(t)

\* the scheduler runs every thread that can take a step
SpecThreads ==
    /\ InitThreads
    /\ [][NextThreads]_vars
    /\ WF_vars(MainStep)
    /\ \A t \in 1..MaxHardware : WF_vars(t \in DOMAIN threads /\ Worker(t))

\* the whole program with one worker and with two, over a search length that
\* has the second worker pass a multiple of 0xff; every interleaving of the
\* threads, no assumption on the scheduler
InitReporter ==
    \E locale \in BOOLEAN : \E hw \in 2..3 : InitMain(locale, hw, U32(WideLength))

SpecReporter == InitReporter /\ [][NextThreads]_vars

\* one call of testSentences, statement by statement
WorkerStarts == {<<0, 0>>, <<0, 9>>, <<Base - 1, Base - 3>>}

InitWorker ==
    \E from \in WorkerStarts : \E n \in 1..MaxRange : \E report \in BOOLEAN :
        InitCall(from, Add32(from, U32(n)), report)

NextWorker ==
    \E t \in DOMAIN threads :
        \/ ForI(t) \/ StorePercent(t) \/ PrintPercent(t)
        \/ ForC(t) \/ EndC(t) \/ ForOp(t) \/ EndOp(t) \/ Finish(t)

SpecWorker == InitWorker /\ [][NextWorker]_vars

\* one call of testSentences over longer ranges: the progress report statement
\* by statement, the loops over c and operation of a candidate in one step
ProgressRanges ==
    {<<0, MaxProgress>>, <<226, 326>>, <<226, 276>>, <<250, 260>>}

InitProgress ==
    \E range \in ProgressRanges : \E report \in BOOLEAN :
        InitCall(U32(range[1]), U32(range[2]), report)

NextProgress ==
    \E t \in DOMAIN threads :
        ForI(t) \/ StorePercent(t) \/ PrintPercent(t) \/ Pass(t) \/ Finish(t)

SpecProgress == InitProgress /\ [][NextProgress]_vars

\* createCRCString and generateSentence over sample values
EncValues ==
    {<<0, 0>>, <<0, 9>>, <<0, 10>>, <<160, 0>>, <<51966, 47806>>,
     <<57005, 48879>>, <<Base - 1, Base - 1>>}

InitEncode ==
    /\ localeExists = TRUE
    /\ hardware = 0
    /\ numThreads = 0
    /\ length = SearchLength
    /\ bucketSize = <<0, 0>>
    /\ launchI = 0
    /\ joined = 0
    /\ mainPc = "none"
    /\ exitStatus = -1
    /\ threads = <<>>
    /\ percentComplete = PercentCompleteInit
    /\ accessed = {}
    /\ \E value \in EncValues : \E upper \in BOOLEAN :
          enc = [NoEnc EXCEPT !.pc = "render", !.crcValue = value,
                              !.upperCase = upper]

NextEncode == Render \/ Encode

SpecEncode == InitEncode /\ [][NextEncode]_vars

-----------------------------------------------------------------------------
(* helpers of the properties *)

\* the value of a uint32_t below 2^31
ToInt(u) == u[1] * Base + u[2]

\* the 8 hexadecimal digits of a value, as numbers
Nibbles(v) ==
    {(v[1] \div 16 ^ pos) % 16 : pos \in 0..3} \cup {(v[2] \div 16 ^ pos) % 16 : pos \in 0..3}

\* the hexadecimal rendering of v contains no letter a-f
NoHexLetter(v) == \A nib \in Nibbles(v) : nib < 10

\* v lies in the range [start_inc, end_ex) of worker w
InRange(v, w) == ~Less32(v, w.start_inc) /\ Less32(v, w.end_ex)

\* a + dist as a natural number, when it is below 2^32
Plus(a, dist) ==
    IF a[1] = Base - 1 /\ a[2] + dist >= Base THEN <<-1, -1>> ELSE Add32(a, U32(dist))

\* 0 < |a - b| < 25 over the integers
Near(a, b) == \E dist \in 1..24 : Plus(a, dist) = b \/ Plus(b, dist) = a

-----------------------------------------------------------------------------
(* C1 *)

\* the values probed: the ends of the 32-bit space and the bounds of every range
Probes ==
    {<<0, 0>>, <<Base - 1, Base - 1>>}
    \cup {threads[t].start_inc : t \in DOMAIN threads}
    \cup {threads[t].end_ex : t \in DOMAIN threads}
    \cup {Sub32(threads[t].end_ex, U32(1)) : t \in DOMAIN threads}

\* C1: once main has launched its N workers, their ranges partition [0, 2^32):
\* every value lies in the range of exactly one worker (probed at 0, at
\* 2^32 - 1 and at the bounds of every range)
C1_Partition ==
    mainPc = "join" =>
        /\ Len(threads) = numThreads
        /\ \A v \in Probes :
              Cardinality({t \in DOMAIN threads : InRange(v, threads[t])}) = 1

-----------------------------------------------------------------------------
(* C2 *)

\* the operation code without its append-length and full-stop flags
Stem(operation) ==
    operation - 128 - (IF Bit(operation, 8) THEN 8 ELSE 0)

\* C2: for an operation code with the append-length flag, the sentence is the
\* sentence without length and full stop, then " and a length of ", then the
\* decimal number of characters of the whole sentence, then the full stop if
\* its flag is set
C2_SelfLength ==
    (enc.pc = "encoded" /\ Bit(enc.operation, 128)) =>
        enc.sentence = generateSentence(Stem(enc.operation), enc.crcString)
                       \o " and a length of "
                       \o DecString(Len(enc.sentence))
                       \o (IF Bit(enc.operation, 8) THEN "." ELSE "")

\* a sentence with opening phrase, length and full stop has been generated
C2_Witness ==
    /\ enc.pc = "encoded"
    /\ enc.operation = 223
    /\ enc.crcString = <<"D", "E", "A", "D", "B", "E", "E", "F">>
    /\ Len(enc.sentence) = 81

-----------------------------------------------------------------------------
(* C5 *)

Clause(basicText, capital) ==
    CASE basicText = 0 ->
            IF capital THEN "This text has a CRC of" ELSE "this text has a CRC of"
      [] basicText = 1 ->
            IF capital THEN "This string has a CRC of" ELSE "this string has a CRC of"
      [] basicText = 2 ->
            IF capital THEN "This has a CRC of" ELSE "this has a CRC of"
      [] basicText = 3 ->
            IF capital THEN "I have a CRC value of" ELSE "I happen to have a CRC value of"

\* C5: with no opening phrase and no length, the sentence is the body clause,
\* ": " or " ", the checksum string and "." if the full-stop flag is set
C5_PlainSentence ==
    (enc.pc = "encoded" /\ enc.operation < 32) =>
        /\ enc.sentence = Clause(enc.operation % 4, Bit(enc.operation, 4))
                          \o (IF Bit(enc.operation, 16) THEN ": " ELSE " ")
                          \o Str(enc.crcString)
                          \o (IF Bit(enc.operation, 8) THEN "." ELSE "")
        /\ (enc.operation = 0 /\ enc.crcValue = <<0, 0>>) =>
              enc.sentence = "this text has a CRC of 00000000"
        /\ (enc.operation = 31 /\ enc.crcValue = <<51966, 47806>> /\ enc.upperCase) =>
              enc.sentence = "I have a CRC value of: CAFEBABE."

\* capitalize + body 3 + full stop + colon has been generated for "CAFEBABE"
C5_Witness ==
    /\ enc.pc = "encoded"
    /\ enc.operation = 31
    /\ enc.crcString = <<"C", "A", "F", "E", "B", "A", "B", "E">>

-----------------------------------------------------------------------------
(* C10 *)

\* the letter cases the worker runs for a value: lower, and upper when the
\* rendering has a letter
CaseRun(v, upper) == ~upper \/ ~NoHexLetter(v)

\* C10: the sentence generated for a value, a letter case the worker runs and an
\* operation code differs from the sentence of every other letter case the
\* worker runs and operation code it enumerates for that value
C10_Distinct ==
    (enc.pc = "encoded" /\ CaseRun(enc.crcValue, enc.upperCase)) =>
        \A upper \in {u \in BOOLEAN : CaseRun(enc.crcValue, u)} :
            LET other == createCRCString(enc.crcValue, upper)
            IN  \A code \in 0..255 :
                    (upper # enc.upperCase \/ code # enc.operation) =>
                        generateSentence(code, other) # enc.sentence

\* a sentence of the uppercase pass of a value with letters
C10_Witness ==
    /\ enc.pc = "encoded"
    /\ enc.upperCase
    /\ enc.crcValue = <<57005, 48879>>
    /\ enc.operation = 100

-----------------------------------------------------------------------------
(* C3 *)

\* C3: for every sentence tested, a Hit is reported exactly when the checksum
\* equals the candidate, a Near Miss exactly when it differs from it by less than
\* 25 over the integers, and nothing otherwise
C3_Classify ==
    \A t \in DOMAIN threads :
        LET test == threads[t].test
        IN  test.operation >= 0 =>
              /\ test.out \in {"HIT", "NEAR MISS", "none"}
              /\ test.out = "HIT" <=> test.crc = test.i
              /\ test.out = "NEAR MISS" <=> Near(test.crc, test.i)
              /\ test.out = "none" <=> (test.crc # test.i /\ ~Near(test.crc, test.i))

\* a checksum that is near the candidate only modulo 2^32 has been tested and
\* nothing was reported; candidate 0 is at the bottom of the 32-bit space
C3_Witness ==
    \E t \in DOMAIN threads :
        /\ threads[t].test.operation >= 0
        /\ threads[t].test.i = <<0, 0>>
        /\ threads[t].test.crc = <<Base - 1, Base - (nearMissDistance - 1)>>
        /\ threads[t].test.out = "none"

-----------------------------------------------------------------------------
(* C4 *)

\* C4: for every candidate the worker has finished, only the lowercase pass was
\* run, with one sweep of the operation codes, if the hexadecimal rendering has
\* no letter; both passes were run otherwise
C4_CaseSkip ==
    \A t \in DOMAIN threads :
        LET last == threads[t].last
        IN  last.finished =>
              IF NoHexLetter(last.i)
              THEN last.passes = <<0>> /\ last.calls = maxSentenceOperations
              ELSE last.passes = <<0, 1>> /\ last.calls = 2 * maxSentenceOperations

\* the candidate 9, "00000009", has been finished after its lowercase pass
C4_Witness ==
    \E t \in DOMAIN threads :
        /\ threads[t].last.finished
        /\ threads[t].last.i = <<0, 9>>
        /\ threads[t].last.passes = <<0>>

-----------------------------------------------------------------------------
(* C6 *)

\* a pass of the loop over operation has run to its end
PassDone(w) == w.pc # "for_op" /\ w.ops # <<>>

\* C6 as claimed: every pass encodes the 512 operation codes 0..511, one each,
\* in ascending order
C6_Sweep512 ==
    \A t \in DOMAIN threads :
        PassDone(threads[t]) => threads[t].ops = [k \in 1..512 |-> k - 1]

\* C6 as amended: every pass encodes the 256 operation codes 0..255, one each,
\* in ascending order
C6_Sweep256 ==
    \A t \in DOMAIN threads :
        /\ threads[t].ops = [k \in 1..Len(threads[t].ops) |-> k - 1]
        /\ Len(threads[t].ops) <= 256
        /\ PassDone(threads[t]) => Len(threads[t].ops) = 256

\* an uppercase pass has run to its end
C6_Witness ==
    \E t \in DOMAIN threads :
        /\ PassDone(threads[t])
        /\ threads[t].passes = <<0, 1>>
        /\ threads[t].c = 2
        /\ threads[t].ops[256] = 255

-----------------------------------------------------------------------------
(* C8 *)

\* the percentage as the claim has it
FloorPercent(x, y) == (100 * x) \div y

\* the percentage the double arithmetic gives: an exact 29, 57 or 58 percent
\* comes out one lower
DoublePercent(x, y) ==
    LET exact == (100 * x) \div y
    IN  IF 100 * x = exact * y /\ exact \in {29, 57, 58} THEN exact - 1 ELSE exact

Multiple(v, of) == \E times \in 0..(ToInt(v) \div of) : ToInt(v) = of * times

\* the progress report of worker w: computed exactly for the reporter at the
\* multiples of `every`, with the value value(i - start_inc, end_ex - start_inc);
\* stored to percentComplete and then printed exactly when it differs from the
\* percentage reported last, the store first
ProgressAs(w, every, value(_, _)) ==
    LET pr == w.progress
    IN  pr.checked =>
          /\ pr.computed <=> (w.reportPercentComplete /\ Multiple(pr.i, every))
          /\ pr.computed =>
                pr.per = value(ToInt(pr.i) - ToInt(w.start_inc),
                               ToInt(w.end_ex) - ToInt(w.start_inc))
          /\ pr.differs <=> (pr.computed /\ pr.per # pr.before)
          /\ pr.printed => pr.stored
          /\ pr.stored => pr.differs
          /\ w.pc \notin {"store", "print"} => (pr.printed <=> pr.differs)
          /\ w.pc = "store" <=> (pr.differs /\ ~pr.stored)
          /\ w.pc = "print" <=> (pr.stored /\ ~pr.printed)
          /\ pr.stored => percentComplete = pr.per
          /\ ~pr.stored => percentComplete = (IF pr.computed THEN pr.before
                                              ELSE percentComplete)

-----------------------------------------------------------------------------
(* C7 *)

AllFinished ==
    /\ Len(threads) = numThreads
    /\ numThreads >= 1
    /\ \A t \in DOMAIN threads :
          threads[t].pc = "done" /\ threads[t].i = threads[t].end_ex

\* C7 as claimed: once the thread count is settled main returns, with status
\* 0, and only when every worker it launched has run its loop to the end of its
\* range; the process never ends while a worker is still running
C7_JoinThenExit ==
    /\ [](mainPc = "done" => (exitStatus = 0 /\ AllFinished))
    /\ [](exitStatus # -1 =>
            /\ mainPc \in {"done", "aborted"}
            /\ \A t \in DOMAIN threads : threads[t].pc = "done")
    /\ (numThreads >= 1) ~> (mainPc = "done")

\* C7 as amended: main returns only when every worker has run its loop to the
\* end of its range, and then with status 0; once all the threads are created
\* every worker gets there and main returns; when the process aborts after the
\* thread count is settled, it does so in the launching loop, a thread still to
\* create and none of those launched waited for
C7_JoinOrAbort ==
    /\ [](mainPc = "done" => (exitStatus = 0 /\ AllFinished))
    /\ [](exitStatus # -1 => mainPc \in {"done", "aborted"})
    /\ []((mainPc = "aborted" /\ numThreads >= 1) =>
            /\ exitStatus = AbortStatus
            /\ launchI = Len(threads)
            /\ Len(threads) < numThreads
            /\ joined = 0)
    /\ (mainPc = "join") ~> (mainPc = "done")
    /\ \A t \in 1..MaxHardware :
          (mainPc = "join" /\ t \in DOMAIN threads)
             ~> (/\ t \in DOMAIN threads
                 /\ threads[t].pc = "done"
                 /\ threads[t].i = threads[t].end_ex)

\* main has returned after three workers, the last of which had candidates
C7_Witness ==
    /\ mainPc = "done"
    /\ numThreads = 3
    /\ threads[3].last.finished
    /\ AllFinished

-----------------------------------------------------------------------------
(* C9 *)

\* C9: under every interleaving only the first thread launched is the
\* reporter, and only it has read or written percentComplete: no other thread
\* computes a percentage, stores one or prints one, at a multiple of 0xff or
\* elsewhere
C9_OnlyReporter ==
    /\ accessed \subseteq {1}
    /\ \A t \in DOMAIN threads :
          /\ threads[t].reportPercentComplete <=> t = 1
          /\ threads[t].progress.computed => t = 1
          /\ threads[t].pc \in {"store", "print"} => t = 1
    /\ (percentComplete # PercentCompleteInit) => 1 \in accessed
    /\ mainPc \in {"join", "done"} =>
          Cardinality({t \in DOMAIN threads : threads[t].reportPercentComplete}) = 1

\* the reporter has written percentComplete, and the second worker has gone
\* through the progress report at candidate 255, a multiple of 0xff, without
\* touching it
C9_Witness ==
    /\ accessed = {1}
    /\ percentComplete = 0
    /\ Len(threads) = 2
    /\ threads[2].progress.checked
    /\ threads[2].progress.i = <<0, 255>>
    /\ ~threads[2].progress.computed

=============================================================================
